---------------------------- MODULE Spec2Model ----------------------------
(***************************************************************************)
(* A model of get-onyx-signal-info.py: the AT command protocol             *)
(* (ATProtocol.command over a line queue fed by the serial reader thread), *)
(* the serving-cell decoder (EG2xG.query_serving_cell, lookup_line,        *)
(* str2int) and main (scoped serial port and reader, field selection,      *)
(* output sinks).                                                          *)
(*                                                                         *)
(* A Python str is a sequence of one-character strings, so that split,     *)
(* strip, startswith and int() are computed and not assumed.               *)
(***************************************************************************)
EXTENDS Integers, Sequences, FiniteSets, TLC

----------------------------------------------------------------------------
(* Bounds of the model *)

\* number of threads calling command() on the one ATProtocol instance
NumCallers == 2
\* number of lines the reader thread delivers in one behaviour
MaxLines == 2
\* number of command() invocations in one behaviour
MaxCalls == 2

(* Program constants *)

\* command(..., timeout=5): seconds one responses.get() waits
DefaultTimeout == 5

----------------------------------------------------------------------------
(* Text *)

LineOK == <<"O", "K">>
LineERROR == <<"E", "R", "R", "O", "R">>
LineNOCARRIER == <<"N", "O", " ", "C", "A", "R", "R", "I", "E", "R">>
LineCONNECT == <<"C", "O", "N", "N", "E", "C", "T">>

\* 'AT+QENG="servingcell"'
CmdQENG == <<"A", "T", "+", "Q", "E", "N", "G", "=", "\"", "s", "e", "r", "v",
             "i", "n", "g", "c", "e", "l", "l", "\"">>

\* '+QENG:'
PrefixQENG == <<"+", "Q", "E", "N", "G", ":">>

----------------------------------------------------------------------------
VARIABLES
    lock,       \* ATProtocol.lock: NoOwner or the caller holding it
    queue,      \* ATProtocol.responses: lines put by handle_line, not yet got
    pc,         \* per caller: where it is in command()
    args,       \* per caller: the arguments of its current command() call
    lines,      \* per caller: the local list `lines` of command()
    waited,     \* per caller: whole seconds its current responses.get() has waited
    elapsed,    \* per caller: seconds since the write_line of its pending call
                \* (saturating above the timeout)
    ret,        \* per caller: what its last command() call gave the caller
    popped,     \* per caller: every line its current call got from the queue
    written,    \* the transport: write_line calls so far, in order
    received,   \* every line the reader has passed to handle_line, in order
    mark,       \* per caller: Len(received) at its write_line if the queue was
                \* empty then, else -1
    modem,      \* the lines the attached modem can send
    ser_open,   \* serial.Serial is open
    reader_alive, \* the ReaderThread is running
    mpc,        \* where main() is; "library" when main() is not running
    opts,       \* args of main(): what parse_args() returned
    full_result, \* main's full_result
    result,     \* main's result
    stdout,     \* what has been printed, in order
    metadata_sink, \* the bodies PUT to the metadata service, in order
    udp_sink,   \* the datagrams sent to the unified endpoint, in order
    exc,        \* the exception propagating out of main(), or "none"
    d_gen,      \* decoder run: how its response was generated
    d_response, \* decoder run: the list of lines given to query_serving_cell
    d_out,      \* decoder run: what query_serving_cell gave
    s_in,       \* str2int run: the arguments
    s_out       \* str2int run: the value returned

protoVars == <<lock, queue, pc, args, lines, waited, elapsed, ret, popped,
               written, received, mark>>
envVars == <<modem, ser_open, reader_alive>>
mainVars == <<mpc, opts, full_result, result, stdout, metadata_sink, udp_sink, exc>>
decodeVars == <<d_gen, d_response, d_out, s_in, s_out>>
vars == <<protoVars, envVars, mainVars, decodeVars>>

\* threading.Lock() not held
NoOwner == 0
Callers == 1 .. NumCallers
\* the thread running main(), as a caller of command()
MainThread == 1

\* the lines of the protocol's alphabet: the three terminators of command()
\* and CONNECT, which ends a call only when it is the expected response
ProtoLines == {LineOK, LineERROR, LineNOCARRIER, LineCONNECT}

NoRet == [kind |-> "none"]
None == [kind |-> "None"]
NoOpts == [json |-> FALSE, metadata |-> FALSE, udp_endpoint |-> FALSE, include |-> <<>>]

----------------------------------------------------------------------------
(* ATProtocol *)

\* `with self.lock:` enters only when no other thread holds the lock
CanAcquireNoLock(c) == TRUE
CanAcquire(c) == lock = NoOwner

\* line == response or line == 'ERROR' or line == 'NO CARRIER'
IsTerminator(line, response) ==
    \/ line = response
    \/ line = LineERROR
    \/ line = LineNOCARRIER

\* `return lines`
ReturnValueWithTerminator(collected, line) ==
    [kind |-> "return", value |-> Append(collected, line)]
ReturnValueTagged(collected, line) ==
    [kind |-> "return", value |-> collected, terminator |-> line]
ReturnValue(collected, line) == [kind |-> "return", value |-> collected]

\* raise RuntimeError('AT command timeout ({!r})'.format(command))
TimeoutReturnsPartial(collected, command) == [kind |-> "return", value |-> collected]
TimeoutError(collected, command) == [kind |-> "RuntimeError", command |-> command]

\* a thread calls command(command, response, timeout)
CallCommand(c, command, response, timeout) ==
    /\ pc[c] \in {"idle", "returned", "raised"}
    /\ Len(written) + Cardinality({d \in DOMAIN pc : pc[d] \in {"acquire", "write"}})
          < MaxCalls
    /\ pc' = [pc EXCEPT ![c] = "acquire"]
    /\ args' = [args EXCEPT ![c] =
                  [command |-> command, response |-> response, timeout |-> timeout]]
    /\ ret' = [ret EXCEPT ![c] = NoRet]
    /\ popped' = [popped EXCEPT ![c] = <<>>]
    /\ mark' = [mark EXCEPT ![c] = -1]
    /\ UNCHANGED <<lock, queue, lines, waited, elapsed, written, received>>

Call(c, command, response, timeout) ==
    /\ CallCommand(c, command, response, timeout)
    /\ UNCHANGED <<envVars, mainVars, decodeVars>>

\* with self.lock:
Acquire(c) ==
    /\ pc[c] = "acquire"
    /\ CanAcquire(c)
    /\ lock' = c
    /\ pc' = [pc EXCEPT ![c] = "write"]
    /\ UNCHANGED <<queue, args, lines, waited, elapsed, ret, popped, written, received, mark>>
    /\ UNCHANGED <<envVars, mainVars, decodeVars>>

\* self.responses when command() starts collecting: nothing between
\* write_line and the first get() touches the queue
QueueFlushedAtWrite(q) == <<>>
QueueAtWrite(q) == q

\* self.write_line(command); lines = []; then the first responses.get() starts
WriteLine(c) ==
    /\ pc[c] = "write"
    /\ written' = Append(written, [caller |-> c, command |-> args[c].command])
    /\ lines' = [lines EXCEPT ![c] = <<>>]
    /\ waited' = [waited EXCEPT ![c] = 0]
    /\ pc' = [pc EXCEPT ![c] = "pop"]
    /\ mark' = [mark EXCEPT ![c] = IF queue = <<>> THEN Len(received) ELSE -1]
    /\ queue' = QueueAtWrite(queue)
    /\ UNCHANGED <<lock, args, elapsed, ret, popped, received>>
    /\ UNCHANGED <<envVars, mainVars, decodeVars>>

\* line = self.responses.get(timeout=timeout) gives a line: a terminator ends
\* the call (the lock is released by leaving the with block), another line is
\* appended and the next get() starts
Pop(c) ==
    /\ pc[c] = "pop"
    /\ queue # <<>>
    /\ LET line == Head(queue) IN
        /\ queue' = Tail(queue)
        /\ popped' = [popped EXCEPT ![c] = Append(@, line)]
        /\ waited' = [waited EXCEPT ![c] = 0]
        /\ IF IsTerminator(line, args[c].response)
             THEN /\ ret' = [ret EXCEPT ![c] = ReturnValue(lines[c], line)]
                  /\ pc' = [pc EXCEPT ![c] = "returned"]
                  /\ lock' = IF lock = c THEN NoOwner ELSE lock
                  /\ lines' = [lines EXCEPT ![c] = <<>>]
                  /\ elapsed' = [elapsed EXCEPT ![c] = 0]
             ELSE /\ lines' = [lines EXCEPT ![c] = Append(@, line)]
                  /\ UNCHANGED <<ret, pc, lock, elapsed>>
    /\ UNCHANGED <<args, written, received, mark>>
    /\ UNCHANGED <<envVars, mainVars, decodeVars>>

\* the raise leaves `with self.lock:`, which releases the lock
LockKeptOnRaise(c) == lock
LockOnRaise(c) == IF lock = c THEN NoOwner ELSE lock

\* responses.get(timeout=timeout) has waited its whole timeout: each get()
\* counts from its own start
ExpiredSinceWrite(c) == elapsed[c] >= args[c].timeout
Expired(c) == waited[c] >= args[c].timeout

\* responses.get() raises queue.Empty: no line within `timeout` seconds; the
\* bare except turns it into RuntimeError and the with block releases the lock
Timeout(c) ==
    /\ pc[c] = "pop"
    /\ queue = <<>>
    /\ Expired(c)
    /\ ret' = [ret EXCEPT ![c] = TimeoutError(lines[c], args[c].command)]
    /\ pc' = [pc EXCEPT ![c] = "raised"]
    /\ lock' = LockOnRaise(c)
    /\ lines' = [lines EXCEPT ![c] = <<>>]
    /\ waited' = [waited EXCEPT ![c] = 0]
    /\ elapsed' = [elapsed EXCEPT ![c] = 0]
    /\ UNCHANGED <<queue, args, popped, written, received, mark>>
    /\ UNCHANGED <<envVars, mainVars, decodeVars>>

\* one second passes while the callers in responses.get() find the queue empty
Tick ==
    /\ queue = <<>>
    /\ \E c \in DOMAIN pc : pc[c] = "pop"
    /\ \A c \in DOMAIN pc : pc[c] = "pop" => waited[c] < args[c].timeout
    /\ waited' = [c \in DOMAIN pc |-> IF pc[c] = "pop" THEN waited[c] + 1 ELSE waited[c]]
    /\ elapsed' = [c \in DOMAIN pc |->
                     IF pc[c] = "pop" /\ elapsed[c] <= args[c].timeout
                       THEN elapsed[c] + 1 ELSE elapsed[c]]
    /\ UNCHANGED <<lock, queue, pc, args, lines, ret, popped, written, received, mark>>
    /\ UNCHANGED <<envVars, mainVars, decodeVars>>

\* self.responses.put(line) on a queue.Queue(): first in, first out, no
\* maximum size
PutLifo(q, line) == <<line>> \o q
Put(q, line) == Append(q, line)

\* the reader thread: LineReader calls handle_line(line) for a received line
HandleLine(line) ==
    /\ reader_alive
    /\ ser_open
    /\ Len(received) < MaxLines
    /\ queue' = Put(queue, line)
    /\ received' = Append(received, line)
    /\ UNCHANGED <<lock, pc, args, lines, waited, elapsed, ret, popped, written, mark>>
    /\ UNCHANGED <<envVars, mainVars, decodeVars>>

----------------------------------------------------------------------------
(* Python str and int operations used by the decoder *)

\* str.startswith(prefix)
StartsWith(s, prefix) ==
    /\ Len(s) >= Len(prefix)
    /\ SubSeq(s, 1, Len(prefix)) = prefix

\* str.split(sep) for a one-character sep: always at least one piece
RECURSIVE Split(_, _)
Split(s, sep) ==
    IF \E i \in 1 .. Len(s) : s[i] = sep
      THEN LET i == CHOOSE i \in 1 .. Len(s) :
                      s[i] = sep /\ \A j \in 1 .. (i - 1) : s[j] # sep
           IN <<SubSeq(s, 1, i - 1)>> \o Split(SubSeq(s, i + 1, Len(s)), sep)
      ELSE <<s>>

\* str.strip(ch): every leading and every trailing ch removed
RECURSIVE LStrip(_, _)
LStrip(s, ch) == IF s # <<>> /\ s[1] = ch THEN LStrip(Tail(s), ch) ELSE s
RECURSIVE RStrip(_, _)
RStrip(s, ch) ==
    IF s # <<>> /\ s[Len(s)] = ch THEN RStrip(SubSeq(s, 1, Len(s) - 1), ch) ELSE s
Strip(s, ch) == RStrip(LStrip(s, ch), ch)

DigitChars == {"0", "1", "2", "3", "4", "5", "6", "7", "8", "9"}
DigitVal(ch) ==
    CASE ch = "0" -> 0 [] ch = "1" -> 1 [] ch = "2" -> 2 [] ch = "3" -> 3
      [] ch = "4" -> 4 [] ch = "5" -> 5 [] ch = "6" -> 6 [] ch = "7" -> 7
      [] ch = "8" -> 8 [] ch = "9" -> 9

\* the value of a run of decimal digits, underscores skipped
RECURSIVE DigitsValue(_, _)
DigitsValue(s, acc) ==
    IF s = <<>> THEN acc
    ELSE IF s[1] = "_" THEN DigitsValue(Tail(s), acc)
    ELSE DigitsValue(Tail(s), 10 * acc + DigitVal(s[1]))

\* int(str): surrounding blanks, one optional sign, then decimal digits, single
\* underscores allowed between digits; anything else raises ValueError
PyInt(s) ==
    LET t == Strip(s, " ")
        signed == t # <<>> /\ t[1] \in {"+", "-"}
        body == IF signed THEN Tail(t) ELSE t
        wellFormed ==
            /\ body # <<>>
            /\ \A i \in 1 .. Len(body) : body[i] \in DigitChars \cup {"_"}
            /\ body[1] # "_"
            /\ body[Len(body)] # "_"
            /\ \A i \in 1 .. (Len(body) - 1) : ~(body[i] = "_" /\ body[i + 1] = "_")
    IN IF wellFormed
         THEN [ok |-> TRUE,
               v |-> IF signed /\ t[1] = "-" THEN 0 - DigitsValue(body, 0)
                     ELSE DigitsValue(body, 0)]
         ELSE [ok |-> FALSE, v |-> 0]

\* def str2int(str, nan=0)
Str2IntZeroOnError(str, nan) ==
    IF str = <<"-">> THEN nan
    ELSE IF PyInt(str).ok THEN PyInt(str).v ELSE 0
Str2Int(str, nan) ==
    IF str = <<"-">> THEN nan
    ELSE IF PyInt(str).ok THEN PyInt(str).v ELSE nan

----------------------------------------------------------------------------
(* lookup_line and EG2xG.query_serving_cell *)

\* a value of the info dict: a Python str or a Python int
StrVal(s) == [t |-> "str", v |-> s]
IntVal(n) == [t |-> "int", v |-> n]

\* the keys of the info dict, as Python strings
K_state == <<"s", "t", "a", "t", "e">>
K_rat == <<"r", "a", "t">>
K_mcc == <<"m", "c", "c">>
K_mnc == <<"m", "n", "c">>
K_lac == <<"l", "a", "c">>
K_cellid == <<"c", "e", "l", "l", "i", "d">>
K_bsic == <<"b", "s", "i", "c">>
K_arfcn == <<"a", "r", "f", "c", "n">>
K_band == <<"b", "a", "n", "d">>
K_rxlev == <<"r", "x", "l", "e", "v">>
K_txp == <<"t", "x", "p">>
K_rla == <<"r", "l", "a">>
K_drx == <<"d", "r", "x">>
K_c1 == <<"c", "1">>
K_c2 == <<"c", "2">>
K_gprs == <<"g", "p", "r", "s">>
K_tch == <<"t", "c", "h">>
K_ts == <<"t", "s">>
K_ta == <<"t", "a">>
K_maio == <<"m", "a", "i", "o">>
K_hsn == <<"h", "s", "n">>
K_rxlevsub == <<"r", "x", "l", "e", "v", "s", "u", "b">>
K_rxlevfull == <<"r", "x", "l", "e", "v", "f", "u", "l", "l">>
K_rxqualsub == <<"r", "x", "q", "u", "a", "l", "s", "u", "b">>
K_rxqualfull == <<"r", "x", "q", "u", "a", "l", "f", "u", "l", "l">>
K_voicecodec == <<"v", "o", "i", "c", "e", "c", "o", "d", "e", "c">>
K_uarfcn == <<"u", "a", "r", "f", "c", "n">>
K_psc == <<"p", "s", "c">>
K_rac == <<"r", "a", "c">>
K_rscp == <<"r", "s", "c", "p">>
K_ecio == <<"e", "c", "i", "o">>
K_phych == <<"p", "h", "y", "c", "h">>
K_sf == <<"s", "f">>
K_slot == <<"s", "l", "o", "t">>
K_speech_code == <<"s", "p", "e", "e", "c", "h", "_", "c", "o", "d", "e">>
K_commod == <<"c", "o", "m", "m", "o", "d">>
K_duplex == <<"d", "u", "p", "l", "e", "x">>
K_pcid == <<"p", "c", "i", "d">>
K_earfcn == <<"e", "a", "r", "f", "c", "n">>
K_ul_bandwidth == <<"u", "l", "_", "b", "a", "n", "d", "w", "i", "d", "t", "h">>
K_dl_bandwidth == <<"d", "l", "_", "b", "a", "n", "d", "w", "i", "d", "t", "h">>
K_tac == <<"t", "a", "c">>
K_rsrp == <<"r", "s", "r", "p">>
K_rsrq == <<"r", "s", "r", "q">>
K_rssi == <<"r", "s", "s", "i">>
K_sinr == <<"s", "i", "n", "r">>


\* if info['rat'] == 'GSM': one row per assignment, in order
GSMFields ==
    << [key |-> K_mcc, conv |-> "raw", nan |-> 0],
       [key |-> K_mnc, conv |-> "raw", nan |-> 0],
       [key |-> K_lac, conv |-> "raw", nan |-> 0],
       [key |-> K_cellid, conv |-> "raw", nan |-> 0],
       [key |-> K_bsic, conv |-> "int", nan |-> 0],
       [key |-> K_arfcn, conv |-> "int", nan |-> 0],
       [key |-> K_band, conv |-> "int", nan |-> -1],
       [key |-> K_rxlev, conv |-> "int", nan |-> -1],
       [key |-> K_txp, conv |-> "int", nan |-> 0],
       [key |-> K_rla, conv |-> "int", nan |-> 0],
       [key |-> K_drx, conv |-> "int", nan |-> 0],
       [key |-> K_c1, conv |-> "int", nan |-> 0],
       [key |-> K_c2, conv |-> "int", nan |-> 0],
       [key |-> K_gprs, conv |-> "int", nan |-> -1],
       [key |-> K_tch, conv |-> "int", nan |-> 0],
       [key |-> K_ts, conv |-> "int", nan |-> 0],
       [key |-> K_ta, conv |-> "int", nan |-> 0],
       [key |-> K_maio, conv |-> "int", nan |-> 0],
       [key |-> K_hsn, conv |-> "int", nan |-> 0],
       [key |-> K_rxlevsub, conv |-> "int", nan |-> -1],
       [key |-> K_rxlevfull, conv |-> "int", nan |-> -1],
       [key |-> K_rxqualsub, conv |-> "int", nan |-> -1],
       [key |-> K_rxqualfull, conv |-> "int", nan |-> -1],
       [key |-> K_voicecodec, conv |-> "strip", nan |-> 0] >>

\* elif info['rat'] == 'WCDMA':
WCDMAFields ==
    << [key |-> K_mcc, conv |-> "raw", nan |-> 0],
       [key |-> K_mnc, conv |-> "raw", nan |-> 0],
       [key |-> K_lac, conv |-> "raw", nan |-> 0],
       [key |-> K_cellid, conv |-> "raw", nan |-> 0],
       [key |-> K_uarfcn, conv |-> "int", nan |-> 0],
       [key |-> K_psc, conv |-> "int", nan |-> 0],
       [key |-> K_rac, conv |-> "int", nan |-> -1],
       [key |-> K_rscp, conv |-> "int", nan |-> 0],
       [key |-> K_ecio, conv |-> "int", nan |-> 0],
       [key |-> K_phych, conv |-> "int", nan |-> -1],
       [key |-> K_sf, conv |-> "int", nan |-> 8],
       [key |-> K_slot, conv |-> "int", nan |-> -1],
       [key |-> K_speech_code, conv |-> "raw", nan |-> 0],
       [key |-> K_commod, conv |-> "int", nan |-> -1] >>

\* elif info['rat'] == 'LTE':
LTEFields ==
    << [key |-> K_duplex, conv |-> "strip", nan |-> 0],
       [key |-> K_mcc, conv |-> "raw", nan |-> 0],
       [key |-> K_mnc, conv |-> "raw", nan |-> 0],
       [key |-> K_cellid, conv |-> "raw", nan |-> 0],
       [key |-> K_pcid, conv |-> "int", nan |-> 0],
       [key |-> K_earfcn, conv |-> "int", nan |-> 0],
       [key |-> K_band, conv |-> "int", nan |-> 0],
       [key |-> K_ul_bandwidth, conv |-> "int", nan |-> 0],
       [key |-> K_dl_bandwidth, conv |-> "int", nan |-> 0],
       [key |-> K_tac, conv |-> "raw", nan |-> 0],
       [key |-> K_rsrp, conv |-> "int", nan |-> 0],
       [key |-> K_rsrq, conv |-> "int", nan |-> 0],
       [key |-> K_rssi, conv |-> "int", nan |-> 0],
       [key |-> K_sinr, conv |-> "int", nan |-> 0],
       [key |-> K_rxlev, conv |-> "int", nan |-> 0] >>

\* def lookup_line(list, prefix): the first line that starts with prefix
RECURSIVE LookupLineLast(_, _)
LookupLineLast(list, prefix) ==
    IF list = <<>> THEN [kind |-> "RuntimeError"]
    ELSE IF StartsWith(list[Len(list)], prefix)
      THEN [kind |-> "line", line |-> list[Len(list)]]
    ELSE LookupLineLast(SubSeq(list, 1, Len(list) - 1), prefix)
RECURSIVE LookupLine(_, _)
LookupLine(list, prefix) ==
    IF list = <<>> THEN [kind |-> "RuntimeError"]
    ELSE IF StartsWith(Head(list), prefix) THEN [kind |-> "line", line |-> Head(list)]
    ELSE LookupLine(Tail(list), prefix)

\* resp[i] of a Python list: i counts from 0
At(resp, i) == resp[i + 1]
InRange(resp, i) == i < Len(resp)

\* (i:=i+1)
AdvanceStuck(i) == i
Advance(i) == i + 1

\* the right-hand side of one assignment info[key] = ...
FieldValue(field, token) ==
    CASE field.conv = "raw" -> StrVal(token)
      [] field.conv = "strip" -> StrVal(Strip(token, "\""))
      [] field.conv = "int" -> IntVal(Str2Int(token, field.nan))

\* the assignments of one RAT branch, from cursor i: each reads resp at the
\* advanced cursor, and an index past the end of resp raises IndexError
RECURSIVE ReadFieldsPartial(_, _, _, _)
ReadFieldsPartial(resp, fields, i, info) ==
    IF fields = <<>> THEN [kind |-> "info", info |-> info]
    ELSE LET j == Advance(i) IN
         IF ~InRange(resp, j) THEN [kind |-> "info", info |-> info]
         ELSE ReadFieldsPartial(resp, Tail(fields), j,
                         (Head(fields).key :> FieldValue(Head(fields), At(resp, j))) @@ info)
RECURSIVE ReadFields(_, _, _, _)
ReadFields(resp, fields, i, info) ==
    IF fields = <<>> THEN [kind |-> "info", info |-> info]
    ELSE LET j == Advance(i) IN
         IF ~InRange(resp, j) THEN [kind |-> "IndexError"]
         ELSE ReadFields(resp, Tail(fields), j,
                         (Head(fields).key :> FieldValue(Head(fields), At(resp, j))) @@ info)

\* the fields a RAT's branch reads; no branch for any other RAT
BranchFieldsElseLTE(rat) ==
    CASE rat = <<"G", "S", "M">> -> GSMFields
      [] rat = <<"W", "C", "D", "M", "A">> -> WCDMAFields
      [] OTHER -> LTEFields
BranchFields(rat) ==
    CASE rat = <<"G", "S", "M">> -> GSMFields
      [] rat = <<"W", "C", "D", "M", "A">> -> WCDMAFields
      [] rat = <<"L", "T", "E">> -> LTEFields
      [] OTHER -> <<>>

\* the decoding of the matched line, from resp = line.split(',')
DecodeValidated(resp) ==
    IF ~InRange(resp, 1) THEN [kind |-> "IndexError"]
    ELSE IF ~InRange(resp, 2) THEN [kind |-> "IndexError"]
    ELSE LET state == Strip(At(resp, 1), "\"")
             rat == Strip(At(resp, 2), "\"")
             head == (K_rat :> StrVal(rat)) @@ (K_state :> StrVal(state))
         IN IF Len(resp) < 3 + Len(BranchFields(rat))
              THEN [kind |-> "info", info |-> head]
              ELSE ReadFields(resp, BranchFields(rat), 2, head)
Decode(resp) ==
    IF ~InRange(resp, 1) THEN [kind |-> "IndexError"]
    ELSE IF ~InRange(resp, 2) THEN [kind |-> "IndexError"]
    ELSE LET state == Strip(At(resp, 1), "\"")
             rat == Strip(At(resp, 2), "\"")
         IN ReadFields(resp, BranchFields(rat), 2,
                       (K_rat :> StrVal(rat)) @@ (K_state :> StrVal(state)))

\* def query_serving_cell(self), given what self.command(...) returned
QueryServingCell(response) ==
    LET found == LookupLine(response, PrefixQENG) IN
    IF found.kind = "RuntimeError" THEN [kind |-> "RuntimeError"]
    ELSE Decode(Split(found.line, ","))

----------------------------------------------------------------------------
(* The protocol used by concurrent callers *)

InitProto(callers, response) ==
    /\ lock = NoOwner
    /\ queue = <<>>
    /\ pc = [c \in callers |-> "idle"]
    /\ args = [c \in callers |->
                 [command |-> CmdQENG, response |-> response, timeout |-> DefaultTimeout]]
    /\ lines = [c \in callers |-> <<>>]
    /\ waited = [c \in callers |-> 0]
    /\ elapsed = [c \in callers |-> 0]
    /\ ret = [c \in callers |-> NoRet]
    /\ popped = [c \in callers |-> <<>>]
    /\ written = <<>>
    /\ received = <<>>
    /\ mark = [c \in callers |-> -1]

\* main() not running
InitNoMain ==
    /\ mpc = "library"
    /\ opts = NoOpts
    /\ full_result = None
    /\ result = None
    /\ stdout = <<>>
    /\ metadata_sink = <<>>
    /\ udp_sink = <<>>
    /\ exc = "none"

\* no decoder run
InitNoDecode ==
    /\ d_gen = None
    /\ d_response = <<>>
    /\ d_out = None
    /\ s_in = None
    /\ s_out = None

\* the serial port is open and its reader runs; threads call command()
Init ==
    /\ \E response \in {LineOK, LineCONNECT} : InitProto(Callers, response)
    /\ modem = ProtoLines
    /\ ser_open = TRUE
    /\ reader_alive = TRUE
    /\ InitNoMain
    /\ InitNoDecode

Next ==
    \/ \E c \in Callers : Call(c, CmdQENG, args[c].response, DefaultTimeout)
    \/ \E c \in Callers : Acquire(c)
    \/ \E c \in Callers : WriteLine(c)
    \/ \E c \in Callers : Pop(c)
    \/ \E c \in Callers : Timeout(c)
    \/ Tick
    \/ \E line \in modem : HandleLine(line)

Spec == Init /\ [][Next]_vars

----------------------------------------------------------------------------
(* The decoder on generated responses *)

\* '+QENG: "servingcell"', the first token of a report line
TokPreamble == <<"+", "Q", "E", "N", "G", ":", " ", "\"", "s", "e", "r", "v", "i",
                 "n", "g", "c", "e", "l", "l", "\"">>
\* '"NOCONN"'
TokState == <<"\"", "N", "O", "C", "O", "N", "N", "\"">>

\* the RAT tokens of the generated lines: the three RATs decoded and one other
RatTokens ==
    << <<"\"", "G", "S", "M", "\"">>,
       <<"\"", "W", "C", "D", "M", "A", "\"">>,
       <<"\"", "L", "T", "E", "\"">>,
       <<"\"", "N", "R", "5", "G", "\"">> >>

\* sample tokens with what Python's int() makes of each: isint, and the value
TokenPool ==
    << [text |-> <<"-">>, isint |-> FALSE, val |-> 0],
       [text |-> <<"4", "2">>, isint |-> TRUE, val |-> 42],
       [text |-> <<"a", "b", "c">>, isint |-> FALSE, val |-> 0],
       [text |-> <<"-", "9", "5">>, isint |-> TRUE, val |-> -95],
       [text |-> <<"\"", "F", "D", "D", "\"">>, isint |-> FALSE, val |-> 0],
       [text |-> <<>>, isint |-> FALSE, val |-> 0],
       [text |-> <<"0", "0", "7">>, isint |-> TRUE, val |-> 7],
       [text |-> <<"1", "A", "2", "B">>, isint |-> FALSE, val |-> 0] >>

\* further arguments of str2int
ExtraTokens ==
    << [text |-> <<"+", "3">>, isint |-> TRUE, val |-> 3],
       [text |-> <<" ", "1", "2", " ">>, isint |-> TRUE, val |-> 12],
       [text |-> <<"4", "_", "2">>, isint |-> TRUE, val |-> 42],
       [text |-> <<"-", "0">>, isint |-> TRUE, val |-> 0],
       [text |-> <<"1", "0", "3", "5">>, isint |-> TRUE, val |-> 1035],
       [text |-> <<"-", "-", "1">>, isint |-> FALSE, val |-> 0],
       [text |-> <<"1", ".", "5">>, isint |-> FALSE, val |-> 0],
       [text |-> <<"+">>, isint |-> FALSE, val |-> 0],
       [text |-> <<"4", "_", "_", "2">>, isint |-> FALSE, val |-> 0],
       [text |-> <<"_", "4">>, isint |-> FALSE, val |-> 0],
       [text |-> <<"-", " ", "5">>, isint |-> FALSE, val |-> 0],
       [text |-> <<"0", "x", "1", "F">>, isint |-> FALSE, val |-> 0] >>

\* the fallbacks str2int is called with
Fallbacks == {-1, 0, 8, 5}

\* the longest generated report line, in tokens
MaxTokens == 29

\* the pool entry of the token at index p (from 0) of a line generated with
\* `shift`; neighbouring tokens differ
PoolAt(p, shift) == TokenPool[((p + shift) % Len(TokenPool)) + 1]

\* the tokens of a generated line: preamble, state, RAT, then pool tokens
GenTokens(rat, n, shift) ==
    [p \in 1 .. n |->
        CASE p = 1 -> TokPreamble
          [] p = 2 -> TokState
          [] p = 3 -> RatTokens[rat]
          [] OTHER -> PoolAt(p - 1, shift).text]

\* ','.join(tokens)
RECURSIVE Join(_, _)
Join(tokens, sep) ==
    IF tokens = <<>> THEN <<>>
    ELSE IF Len(tokens) = 1 THEN tokens[1]
    ELSE tokens[1] \o <<sep>> \o Join(Tail(tokens), sep)

GenLine(rat, n, shift) == Join(GenTokens(rat, n, shift), ",")

\* the response lists: the report line alone, after the echoed command, before
\* a second report line, and responses without a report line
GenResponse(g) ==
    CASE g.shape = "single" -> <<GenLine(g.rat, g.n, g.shift)>>
      [] g.shape = "echo" -> <<CmdQENG, GenLine(g.rat, g.n, g.shift)>>
      [] g.shape = "two" ->
            <<GenLine(g.rat, g.n, g.shift), GenLine(g.rat, g.n, g.shift + 1)>>
      [] g.shape = "none" -> <<CmdQENG, LineCONNECT>>
      [] g.shape = "empty" -> <<>>

Shapes == {"single", "echo", "two", "none", "empty"}

InitNoProto ==
    /\ InitProto({}, LineOK)
    /\ modem = {}
    /\ ser_open = FALSE
    /\ reader_alive = FALSE

InitDecode ==
    /\ InitNoProto
    /\ InitNoMain
    /\ \/ /\ \E rat \in 1 .. Len(RatTokens), n \in 1 .. MaxTokens,
               shift \in 0 .. (Len(TokenPool) - 1), shape \in Shapes :
               d_gen = [kind |-> "gen", rat |-> rat, n |-> n, shift |-> shift,
                        shape |-> shape]
          /\ d_response = GenResponse(d_gen)
       \/ /\ d_gen = None
          /\ d_response = <<>>
    /\ d_out = None
    /\ s_in = None
    /\ s_out = None

\* query_serving_cell decodes the response
Query ==
    /\ d_gen # None
    /\ d_out = None
    /\ d_out' = QueryServingCell(d_response)
    /\ UNCHANGED <<d_gen, d_response, s_in, s_out>>
    /\ UNCHANGED <<protoVars, envVars, mainVars>>

\* str2int(str, nan)
Str2IntCall(str, nan) ==
    /\ d_gen = None
    /\ s_in' = [str |-> str, nan |-> nan]
    /\ s_out' = IntVal(Str2Int(str.text, nan))
    /\ UNCHANGED <<d_gen, d_response, d_out>>
    /\ UNCHANGED <<protoVars, envVars, mainVars>>

NextDecode ==
    \/ Query
    \/ \E i \in 1 .. Len(TokenPool), nan \in Fallbacks : Str2IntCall(TokenPool[i], nan)
    \/ \E i \in 1 .. Len(ExtraTokens), nan \in Fallbacks : Str2IntCall(ExtraTokens[i], nan)

SpecDecode == InitDecode /\ [][NextDecode]_vars

----------------------------------------------------------------------------
(* main *)

\* -i/--include: the texts the runs are given, with the list each one names
IncludeArgs ==
    { \* the default, 'rat,band,rsrp,sinr'
      [text |-> <<"r", "a", "t", ",", "b", "a", "n", "d", ",", "r", "s", "r", "p", ",",
                  "s", "i", "n", "r">>,
       items |-> {K_rat, K_band, K_rsrp, K_sinr}],
      \* 'any'
      [text |-> <<"a", "n", "y">>, items |-> {<<"a", "n", "y">>}],
      \* 'mcc,any'
      [text |-> <<"m", "c", "c", ",", "a", "n", "y">>,
       items |-> {K_mcc, <<"a", "n", "y">>}],
      \* 'band,lac,,sf'
      [text |-> <<"b", "a", "n", "d", ",", "l", "a", "c", ",", ",", "s", "f">>,
       items |-> {K_band, K_lac, <<>>, K_sf}] }

\* a well-formed LTE report line:
\* +QENG: "servingcell","NOCONN","LTE","FDD",440,10,1A2B,123,1850,3,5,5,1B3C,-95,-10,-65,10,30
ReportLTE ==
    Join(<< TokPreamble, TokState, RatTokens[3], <<"\"", "F", "D", "D", "\"">>,
            <<"4", "4", "0">>, <<"1", "0">>, <<"1", "A", "2", "B">>, <<"1", "2", "3">>,
            <<"1", "8", "5", "0">>, <<"3">>, <<"5">>, <<"5">>, <<"1", "B", "3", "C">>,
            <<"-", "9", "5">>, <<"-", "1", "0">>, <<"-", "6", "5">>, <<"1", "0">>,
            <<"3", "0">> >>, ",")

\* an LTE report line cut after its fifth token
ReportShort == GenLine(3, 5, 0)

\* what the modem of a run of main can send
MainLines == {LineOK, LineERROR, ReportLTE, ReportShort}

\* item_names = args.include.split(','); 'any' in item_names selects all
SelectItemsNoAny(full, item_names) ==
    [k \in {k \in DOMAIN full : \E i \in 1 .. Len(item_names) : item_names[i] = k}
        |-> full[k]]
SelectItems(full, item_names) ==
    IF \E i \in 1 .. Len(item_names) : item_names[i] = <<"a", "n", "y">>
      THEN full
      ELSE [k \in {k \in DOMAIN full : \E i \in 1 .. Len(item_names) : item_names[i] = k}
              |-> full[k]]

\* if args.json or not (args.metadata or args.udp_endpoint):
WantsStdoutUnlessBothSinks(o) == o.json \/ ~(o.metadata /\ o.udp_endpoint)
WantsStdout(o) == o.json \/ ~(o.metadata \/ o.udp_endpoint)

\* print(json.dumps(result)): the text is not spelled out, it stands for obj
JsonDumps(obj) == [kind |-> "json", obj |-> obj]

DigitChar(d) ==
    CASE d = 0 -> "0" [] d = 1 -> "1" [] d = 2 -> "2" [] d = 3 -> "3" [] d = 4 -> "4"
      [] d = 5 -> "5" [] d = 6 -> "6" [] d = 7 -> "7" [] d = 8 -> "8" [] d = 9 -> "9"

\* str(v) of a non-negative int
RECURSIVE FormatNat(_)
FormatNat(n) ==
    IF n < 10 THEN <<DigitChar(n)>> ELSE FormatNat(n \div 10) \o <<DigitChar(n % 10)>>

\* str(v)
PyStr(val) ==
    IF val.t = "str" THEN val.v
    ELSE IF val.v < 0 THEN <<"-">> \o FormatNat(0 - val.v)
    ELSE FormatNat(val.v)

\* put_metadata: tags, one {'tagName': k, 'tagValue': str(v)} per item (their
\* order in the list is not kept here)
Tags(obj) == {[tagName |-> k, tagValue |-> PyStr(obj[k])] : k \in DOMAIN obj}

\* where an exception raised inside the two with blocks takes main: the blocks
\* are left through ReaderThread.__exit__ and Serial.__exit__
OnRaiseNoCleanup == "done"
OnRaiseRetry == "query"
OnRaise == "exit_reader"

Raise(e) ==
    /\ exc' = e
    /\ mpc' = OnRaise

\* with serial.Serial(args.device, timeout=1) as ser: the port opens, or the
\* constructor raises and main ends before any block is entered
OpenSerial ==
    /\ mpc = "start"
    /\ \/ /\ ser_open' = TRUE
          /\ mpc' = "opened"
          /\ UNCHANGED exc
       \/ /\ exc' = "SerialException"
          /\ mpc' = "done"
          /\ UNCHANGED ser_open
    /\ UNCHANGED <<modem, reader_alive, opts, full_result, result, stdout,
                   metadata_sink, udp_sink>>
    /\ UNCHANGED <<protoVars, decodeVars>>

\* with serial.threaded.ReaderThread(ser, EG2xG) as onyx: the reader starts
StartReader ==
    /\ mpc = "opened"
    /\ reader_alive' = TRUE
    /\ mpc' = "query"
    /\ UNCHANGED <<modem, ser_open, opts, full_result, result, stdout,
                   metadata_sink, udp_sink, exc>>
    /\ UNCHANGED <<protoVars, decodeVars>>

\* onyx.query_serving_cell() calls self.command('AT+QENG="servingcell"')
MainQuery ==
    /\ mpc = "query"
    /\ CallCommand(MainThread, CmdQENG, LineOK, DefaultTimeout)
    /\ mpc' = "command"
    /\ UNCHANGED <<opts, full_result, result, stdout, metadata_sink, udp_sink, exc>>
    /\ UNCHANGED <<envVars, decodeVars>>

\* command() has ended: its RuntimeError propagates, or query_serving_cell
\* decodes the lines into full_result, or raises itself
MainQueryDone ==
    /\ mpc = "command"
    /\ pc[MainThread] \in {"returned", "raised"}
    /\ IF pc[MainThread] = "raised"
         THEN Raise(ret[MainThread].kind) /\ UNCHANGED full_result
         ELSE LET out == QueryServingCell(ret[MainThread].value) IN
              IF out.kind = "info"
                THEN /\ full_result' = out.info
                     /\ mpc' = "filter"
                     /\ UNCHANGED exc
                ELSE Raise(out.kind) /\ UNCHANGED full_result
    /\ UNCHANGED <<opts, result, stdout, metadata_sink, udp_sink>>
    /\ UNCHANGED <<protoVars, envVars, decodeVars>>

\* filter output
MainFilter ==
    /\ mpc = "filter"
    /\ result' = SelectItems(full_result, Split(opts.include, ","))
    /\ mpc' = "print"
    /\ UNCHANGED <<opts, full_result, stdout, metadata_sink, udp_sink, exc>>
    /\ UNCHANGED <<protoVars, envVars, decodeVars>>

\* output JSON
MainPrint ==
    /\ mpc = "print"
    /\ stdout' = IF WantsStdout(opts) THEN Append(stdout, JsonDumps(result)) ELSE stdout
    /\ mpc' = "metadata"
    /\ UNCHANGED <<opts, full_result, result, metadata_sink, udp_sink, exc>>
    /\ UNCHANGED <<protoVars, envVars, decodeVars>>

\* urlopen raises inside put_metadata: nothing in main catches it, so line 57
\* is not reached
MetadataFailedContinues == exc' = "URLError" /\ mpc' = "udp"
MetadataFailed == Raise("URLError")

\* if args.metadata: put_metadata(result): the PUT is answered (a non-empty
\* answer is printed) or urlopen raises
MainMetadata ==
    /\ mpc = "metadata"
    /\ IF opts.metadata
         THEN \/ /\ metadata_sink' = Append(metadata_sink, Tags(result))
                 /\ \E answered \in BOOLEAN :
                       stdout' = IF answered
                                   THEN Append(stdout, [kind |-> "metadata answer"])
                                   ELSE stdout
                 /\ mpc' = "udp"
                 /\ UNCHANGED exc
              \/ /\ MetadataFailed
                 /\ UNCHANGED <<metadata_sink, stdout>>
         ELSE /\ mpc' = "udp"
              /\ UNCHANGED <<metadata_sink, stdout, exc>>
    /\ UNCHANGED <<opts, full_result, result, udp_sink>>
    /\ UNCHANGED <<protoVars, envVars, decodeVars>>

\* if args.udp_endpoint: put_udp_endpoint(result): the datagram is sent or
\* sendto raises; then the with blocks are left
MainUdp ==
    /\ mpc = "udp"
    /\ IF opts.udp_endpoint
         THEN \/ /\ udp_sink' = Append(udp_sink, JsonDumps(result))
                 /\ mpc' = "exit_reader"
                 /\ UNCHANGED exc
              \/ /\ Raise("OSError")
                 /\ UNCHANGED udp_sink
         ELSE /\ mpc' = "exit_reader"
              /\ UNCHANGED <<udp_sink, exc>>
    /\ UNCHANGED <<opts, full_result, result, stdout, metadata_sink>>
    /\ UNCHANGED <<protoVars, envVars, decodeVars>>

\* ReaderThread.__exit__ -> close(): stop() ends the reader thread ...
StopReader ==
    /\ mpc = "exit_reader"
    /\ reader_alive' = FALSE
    /\ mpc' = "close_port"
    /\ UNCHANGED <<modem, ser_open, opts, full_result, result, stdout,
                   metadata_sink, udp_sink, exc>>
    /\ UNCHANGED <<protoVars, decodeVars>>

\* ... then close() closes the serial port
ClosePort ==
    /\ mpc = "close_port"
    /\ ser_open' = FALSE
    /\ mpc' = "exit_serial"
    /\ UNCHANGED <<modem, reader_alive, opts, full_result, result, stdout,
                   metadata_sink, udp_sink, exc>>
    /\ UNCHANGED <<protoVars, decodeVars>>

\* Serial.__exit__ closes the port (again); main returns or the exception
\* leaves it
ExitSerial ==
    /\ mpc = "exit_serial"
    /\ ser_open' = FALSE
    /\ mpc' = "done"
    /\ UNCHANGED <<modem, reader_alive, opts, full_result, result, stdout,
                   metadata_sink, udp_sink, exc>>
    /\ UNCHANGED <<protoVars, decodeVars>>

\* the exit status of the process once main has ended
ExitStatus == IF exc = "none" THEN 0 ELSE 1

InitMain ==
    /\ InitProto({MainThread}, LineOK)
    /\ modem = MainLines
    /\ ser_open = FALSE
    /\ reader_alive = FALSE
    /\ mpc = "start"
    /\ \E j, m, u \in BOOLEAN, inc \in IncludeArgs :
          opts = [json |-> j, metadata |-> m, udp_endpoint |-> u, include |-> inc.text]
    /\ full_result = None
    /\ result = None
    /\ stdout = <<>>
    /\ metadata_sink = <<>>
    /\ udp_sink = <<>>
    /\ exc = "none"
    /\ InitNoDecode

NextMain ==
    \/ OpenSerial
    \/ StartReader
    \/ MainQuery
    \/ Acquire(MainThread)
    \/ WriteLine(MainThread)
    \/ Pop(MainThread)
    \/ Timeout(MainThread)
    \/ Tick
    \/ \E line \in modem : HandleLine(line)
    \/ MainQueryDone
    \/ MainFilter
    \/ MainPrint
    \/ MainMetadata
    \/ MainUdp
    \/ StopReader
    \/ ClosePort
    \/ ExitSerial

SpecMain == InitMain /\ [][NextMain]_vars

----------------------------------------------------------------------------
(* Properties of the command protocol, checked under Spec *)

Last(s) == s[Len(s)]
Front(s) == SubSeq(s, 1, Len(s) - 1)

\* the callers between acquiring the lock and their terminator or timeout
Pending == {c \in DOMAIN pc : pc[c] \in {"write", "pop"}}

\* C1: at most one command is pending at any time; a pending caller holds the
\* lock, so no caller pops without it; and while a caller collects its response
\* the last write_line on the transport is its own, that is, no other command
\* was written since.
C1_OneCommandPending ==
    /\ Cardinality(Pending) <= 1
    /\ \A c \in Pending : lock = c
    /\ \A c \in DOMAIN pc :
          pc[c] = "pop" => written # <<>> /\ Last(written).caller = c

\* C1 witness: one caller collects its response while another has called
\* command() and waits for the lock.
C1_Witness ==
    \E c, d \in DOMAIN pc :
        /\ c # d
        /\ pc[c] = "pop"
        /\ pc[d] = "acquire"
        /\ written # <<>>

\* index of the first line of s that ends a command expecting `response`, or 0
RECURSIVE FirstEnd(_, _, _)
FirstEnd(s, response, i) ==
    IF i > Len(s) THEN 0
    ELSE IF s[i] \in {response, LineERROR, LineNOCARRIER} THEN i
    ELSE FirstEnd(s, response, i + 1)

\* the lines the reader enqueued since caller c's write_line
Since(c) == SubSeq(received, mark[c] + 1, Len(received))

C3_ReturnedWithinTimeoutOfWrite ==
    [][\A c \in DOMAIN pc :
          (pc[c] = "pop" /\ pc'[c] = "returned") => elapsed[c] <= args[c].timeout
      ]_vars

\* C3 amended: a call ends in the timeout error only when one wait on the
\* queue has lasted `timeout` seconds with the queue still empty (the wait
\* restarts at each popped line); a call whose wait has lasted that long on an
\* empty queue ends in no other way; and the error carries the command, never
\* the lines collected so far.
C3_TimeoutPerWait ==
    [][\A c \in DOMAIN pc :
          /\ (pc[c] # "raised" /\ pc'[c] = "raised") =>
                /\ pc[c] = "pop"
                /\ queue = <<>>
                /\ waited[c] >= args[c].timeout
                /\ ret'[c] = [kind |-> "RuntimeError", command |-> args[c].command]
          /\ (pc[c] = "pop" /\ queue = <<>> /\ waited[c] >= args[c].timeout
                /\ pc'[c] # "pop") => pc'[c] = "raised"
          /\ (pc[c] = "pop" /\ pc'[c] = "returned") => queue # <<>>
      ]_vars

\* C3 witness: a call has ended in the timeout error after collecting a line.
C3_Witness ==
    \E c \in DOMAIN pc :
        /\ pc[c] = "raised"
        /\ popped[c] # <<>>
        /\ ret[c].kind = "RuntimeError"

\* C4: a returned call stopped at the first popped line equal to the expected
\* response, ERROR or NO CARRIER; its result is the list of the lines popped
\* before it and nothing else, so two calls that differ only in the terminator
\* that ended them gave the same value.
C4_TerminatorNotReported ==
    /\ \A c \in DOMAIN pc :
          pc[c] = "returned" =>
              /\ popped[c] # <<>>
              /\ FirstEnd(popped[c], args[c].response, 1) = Len(popped[c])
              /\ DOMAIN ret[c] = {"kind", "value"}
              /\ ret[c].value = Front(popped[c])
    /\ \A c, d \in DOMAIN pc :
          (/\ pc[c] = "returned"
           /\ pc[d] = "returned"
           /\ Front(popped[c]) = Front(popped[d])) => ret[c] = ret[d]

\* C4 witness: two returned calls ended by different terminators with the
\* same lines before them.
C4_Witness ==
    \E c, d \in DOMAIN pc :
        /\ pc[c] = "returned"
        /\ pc[d] = "returned"
        /\ Last(popped[c]) = LineOK
        /\ Last(popped[d]) \in {LineERROR, LineNOCARRIER}
        /\ Front(popped[c]) = Front(popped[d])
        /\ ret[c] = ret[d]

\* C12: the timeout is per pop. A call ends in the timeout error only from a
\* wait that has lasted exactly `timeout` seconds since the previous pop (or
\* the write) with the queue empty; a popped line that is no terminator is
\* appended and restarts the wait at zero; and a call whose current wait is
\* shorter than `timeout` does not time out, however long ago its command
\* was written.
C12_TimeoutRestartsPerLine ==
    [][\A c \in DOMAIN pc :
          /\ (pc[c] = "pop" /\ pc'[c] = "raised") =>
                /\ waited[c] = args[c].timeout
                /\ queue = <<>>
          /\ (pc[c] = "pop" /\ pc'[c] = "pop" /\ popped'[c] # popped[c]) =>
                /\ ~IsTerminator(Last(popped'[c]), args[c].response)
                /\ lines'[c] = Append(lines[c], Last(popped'[c]))
                /\ waited'[c] = 0
          /\ (pc[c] = "pop" /\ waited[c] < args[c].timeout) => pc'[c] # "raised"
      ]_vars

\* C12 witness: a call is still collecting more than `timeout` seconds after
\* its write, with two lines collected and its current wait not expired.
C12_Witness ==
    \E c \in DOMAIN pc :
        /\ pc[c] = "pop"
        /\ elapsed[c] > args[c].timeout
        /\ Len(lines[c]) = 2
        /\ waited[c] < args[c].timeout

\* C13: the lock is held only by a caller between its acquisition and the end
\* of its command(): a call that has returned or has ended in the timeout
\* error does not hold it, so with no command pending the lock is free and a
\* caller waiting for it can acquire it; a pending caller can always take a
\* step (pop a line, wait, or time out), so no waiting caller is blocked for
\* ever; and the reader can enqueue a line whoever holds the lock.
C13_LockReleasedOnEveryExit ==
    /\ \A c \in DOMAIN pc : lock = c <=> pc[c] \in {"write", "pop"}
    /\ (Pending = {}) => lock = NoOwner
    /\ \A d \in DOMAIN pc :
          pc[d] = "acquire" =>
              \/ ENABLED Acquire(d)
              \/ \E c \in Pending : ENABLED (WriteLine(c) \/ Pop(c) \/ Timeout(c) \/ Tick)
    /\ (reader_alive /\ ser_open /\ Len(received) < MaxLines) =>
          \A line \in modem : ENABLED HandleLine(line)

\* C13 witness: after one caller's command ended by timeout, another caller
\* has acquired the lock and written its command, and the reader has
\* enqueued a line since.
C13_Witness ==
    \E c, d \in DOMAIN pc :
        /\ c # d
        /\ pc[c] = "raised"
        /\ Len(written) = 2
        /\ written[1].caller = c
        /\ written[2].caller = d
        /\ pc[d] = "pop"
        /\ lock = d
        /\ queue # <<>>

\* C14: the queue is never flushed. It changes only by the reader appending
\* the line it received or by a collecting caller removing its head, so the
\* steps that start a command (the call, the lock, the write) and the timeout
\* leave it as it is; a caller's pop takes the oldest line of the queue, also
\* when that line was enqueued before the caller's own write; and that line
\* is appended to the caller's lines or, when it is a terminator, ends the
\* call with the lines collected so far.
C14_QueueNotFlushed ==
    [][/\ queue' # queue =>
            \/ /\ received' = Append(received, Last(received'))
               /\ queue' = Append(queue, Last(received'))
            \/ \E c \in DOMAIN pc :
                  /\ pc[c] = "pop"
                  /\ queue # <<>>
                  /\ queue' = Tail(queue)
                  /\ popped'[c] = Append(popped[c], Head(queue))
       /\ \A c \in DOMAIN pc :
            /\ (pc'[c] # pc[c] /\ pc[c] # "pop") => queue' = queue
            /\ (pc[c] = "pop" /\ pc'[c] = "raised") => queue' = queue
            /\ (pc[c] = "pop" /\ popped'[c] # popped[c]) =>
                  IF IsTerminator(Head(queue), args[c].response)
                    THEN pc'[c] = "returned" /\ ret'[c].value = lines[c]
                    ELSE pc'[c] = "pop" /\ lines'[c] = Append(lines[c], Head(queue))
      ]_vars

\* C14 witness: a line enqueued after one caller's timeout was still in the
\* queue at the next caller's write and, being a terminator, ended that call
\* at its first pop with an empty result.
C14_Witness ==
    \E c, d \in DOMAIN pc :
        /\ c # d
        /\ pc[c] = "raised"
        /\ written = <<[caller |-> c, command |-> CmdQENG],
                       [caller |-> d, command |-> CmdQENG]>>
        /\ pc[d] = "returned"
        /\ mark[d] = -1
        /\ popped[d] = <<LineERROR>>
        /\ ret[d] = [kind |-> "return", value |-> <<>>]

\* s is the end of t
IsSuffix(s, t) ==
    /\ Len(s) <= Len(t)
    /\ SubSeq(t, Len(t) - Len(s) + 1, Len(t)) = s

\* s is a run of consecutive elements of t
IsRun(s, t) ==
    \E i \in 0 .. (Len(t) - Len(s)) : SubSeq(t, i + 1, i + Len(s)) = s

\* no line of s ends a command expecting `response`
NoEnd(s, response) == FirstEnd(s, response, 1) = 0

\* C19: lines are conserved. The reader can always enqueue (whatever the
\* length of the queue and whoever holds the lock) and the queue holds the
\* most recent received lines in arrival order; the lines a call has popped
\* are consecutive received lines in arrival order, and for the call last
\* written they are followed by exactly what is in the queue; while a call
\* collects, every line it popped is in its list of lines; a call that
\* returned popped its result followed by the one terminator that ended it,
\* and what was enqueued after that terminator is the queue, in order.
C19_LineConservation ==
    /\ (reader_alive /\ ser_open /\ Len(received) < MaxLines) =>
          \A line \in modem : ENABLED HandleLine(line)
    /\ IsSuffix(queue, received)
    /\ \A c \in DOMAIN pc :
          /\ IsRun(popped[c], received)
          /\ (written # <<>> /\ Last(written).caller = c) =>
                IsSuffix(popped[c] \o queue, received)
          /\ pc[c] = "pop" =>
                /\ lines[c] = popped[c]
                /\ NoEnd(popped[c], args[c].response)
          /\ pc[c] = "returned" =>
                /\ popped[c] # <<>>
                /\ popped[c] = Append(ret[c].value, Last(popped[c]))
                /\ IsTerminator(Last(popped[c]), args[c].response)
                /\ NoEnd(ret[c].value, args[c].response)
          /\ pc[c] = "raised" => NoEnd(popped[c], args[c].response)

\* C19 witness: a call that started on an empty queue returned on its
\* terminator, and the line enqueued after the terminator is what the queue
\* holds.
C19_Witness ==
    \E c \in DOMAIN pc :
        /\ pc[c] = "returned"
        /\ mark[c] = 0
        /\ IsTerminator(Last(popped[c]), args[c].response)
        /\ Len(queue) = 1
        /\ received = popped[c] \o queue

----------------------------------------------------------------------------
(* Properties of main, checked under SpecMain *)

\* C5: the reader never runs on a closed port, and once main has ended, by a
\* normal return or by an exception raised inside the with blocks, the reader
\* is stopped and the port is closed.
C5_ClosedTogetherOnEveryExit ==
    /\ reader_alive => ser_open
    /\ mpc = "done" => (~reader_alive /\ ~ser_open)

\* C5 witness: main has ended by an exception raised while the port was open
\* and the reader running, and both are closed.
C5_Witness ==
    /\ mpc = "done"
    /\ exc \in {"RuntimeError", "IndexError", "URLError", "OSError"}
    /\ ~reader_alive
    /\ ~ser_open

\* the list an --include text names
ItemsOf(text) == (CHOOSE inc \in IncludeArgs : inc.text = text).items

\* C9: for an include list without "any" the keys of result are exactly the
\* keys of full_result that the list names, with the values of full_result;
\* for a list with "any" result is full_result.
C9_FieldSelection ==
    result # None =>
        IF <<"a", "n", "y">> \in ItemsOf(opts.include)
          THEN result = full_result
          ELSE /\ DOMAIN result = DOMAIN full_result \cap ItemsOf(opts.include)
               /\ \A k \in DOMAIN result : result[k] = full_result[k]

\* C9 witness: the default list selected rat, band, rsrp and sinr of an LTE
\* report: {"rat": "LTE", "band": 3, "rsrp": -95, "sinr": 10}.
C9_Witness ==
    /\ result # None
    /\ DOMAIN result = {K_rat, K_band, K_rsrp, K_sinr}
    /\ result[K_rat] = StrVal(<<"L", "T", "E">>)
    /\ result[K_band] = IntVal(3)
    /\ result[K_rsrp] = IntVal(-95)
    /\ result[K_sinr] = IntVal(10)
    /\ DOMAIN full_result # DOMAIN result

\* main is past its print step
Printed == result # None /\ mpc # "print"

\* the JSON of result is on the standard output
JsonOnStdout == \E i \in 1 .. Len(stdout) : stdout[i].kind = "json"

\* C10 as stated: the JSON is withheld from the standard output only when
\* --json is unset and --metadata and --udp-endpoint are both set.
C10_SuppressedOnlyWithBothSinks ==
    Printed => (JsonOnStdout <=> ~(~opts.json /\ opts.metadata /\ opts.udp_endpoint))

\* C10 amended: the JSON is withheld from the standard output exactly when
\* --json is unset and at least one of --metadata, --udp-endpoint is set.
C10_SuppressedWithAnySink ==
    Printed =>
        /\ JsonOnStdout <=> ~(~opts.json /\ (opts.metadata \/ opts.udp_endpoint))
        /\ JsonOnStdout => stdout[1] = [kind |-> "json", obj |-> result]

\* C10 witness: with --metadata alone the print step wrote nothing.
C10_Witness ==
    /\ Printed
    /\ ~opts.json
    /\ opts.metadata
    /\ ~opts.udp_endpoint
    /\ ~JsonOnStdout

----------------------------------------------------------------------------
(* Properties of the decoder, checked under SpecDecode *)

\* the GSM row of the field table: name, type, fallback
RowGSM ==
    << [key |-> K_mcc, type |-> "str", fallback |-> 0],
       [key |-> K_mnc, type |-> "str", fallback |-> 0],
       [key |-> K_lac, type |-> "str", fallback |-> 0],
       [key |-> K_cellid, type |-> "str", fallback |-> 0],
       [key |-> K_bsic, type |-> "int", fallback |-> 0],
       [key |-> K_arfcn, type |-> "int", fallback |-> 0],
       [key |-> K_band, type |-> "int", fallback |-> -1],
       [key |-> K_rxlev, type |-> "int", fallback |-> -1],
       [key |-> K_txp, type |-> "int", fallback |-> 0],
       [key |-> K_rla, type |-> "int", fallback |-> 0],
       [key |-> K_drx, type |-> "int", fallback |-> 0],
       [key |-> K_c1, type |-> "int", fallback |-> 0],
       [key |-> K_c2, type |-> "int", fallback |-> 0],
       [key |-> K_gprs, type |-> "int", fallback |-> -1],
       [key |-> K_tch, type |-> "int", fallback |-> 0],
       [key |-> K_ts, type |-> "int", fallback |-> 0],
       [key |-> K_ta, type |-> "int", fallback |-> 0],
       [key |-> K_maio, type |-> "int", fallback |-> 0],
       [key |-> K_hsn, type |-> "int", fallback |-> 0],
       [key |-> K_rxlevsub, type |-> "int", fallback |-> -1],
       [key |-> K_rxlevfull, type |-> "int", fallback |-> -1],
       [key |-> K_rxqualsub, type |-> "int", fallback |-> -1],
       [key |-> K_rxqualfull, type |-> "int", fallback |-> -1],
       [key |-> K_voicecodec, type |-> "quoted", fallback |-> 0] >>

\* the WCDMA row of the field table: name, type, fallback
RowWCDMA ==
    << [key |-> K_mcc, type |-> "str", fallback |-> 0],
       [key |-> K_mnc, type |-> "str", fallback |-> 0],
       [key |-> K_lac, type |-> "str", fallback |-> 0],
       [key |-> K_cellid, type |-> "str", fallback |-> 0],
       [key |-> K_uarfcn, type |-> "int", fallback |-> 0],
       [key |-> K_psc, type |-> "int", fallback |-> 0],
       [key |-> K_rac, type |-> "int", fallback |-> -1],
       [key |-> K_rscp, type |-> "int", fallback |-> 0],
       [key |-> K_ecio, type |-> "int", fallback |-> 0],
       [key |-> K_phych, type |-> "int", fallback |-> -1],
       [key |-> K_sf, type |-> "int", fallback |-> 8],
       [key |-> K_slot, type |-> "int", fallback |-> -1],
       [key |-> K_speech_code, type |-> "str", fallback |-> 0],
       [key |-> K_commod, type |-> "int", fallback |-> -1] >>

\* the LTE row of the field table: name, type, fallback
RowLTE ==
    << [key |-> K_duplex, type |-> "quoted", fallback |-> 0],
       [key |-> K_mcc, type |-> "str", fallback |-> 0],
       [key |-> K_mnc, type |-> "str", fallback |-> 0],
       [key |-> K_cellid, type |-> "str", fallback |-> 0],
       [key |-> K_pcid, type |-> "int", fallback |-> 0],
       [key |-> K_earfcn, type |-> "int", fallback |-> 0],
       [key |-> K_band, type |-> "int", fallback |-> 0],
       [key |-> K_ul_bandwidth, type |-> "int", fallback |-> 0],
       [key |-> K_dl_bandwidth, type |-> "int", fallback |-> 0],
       [key |-> K_tac, type |-> "str", fallback |-> 0],
       [key |-> K_rsrp, type |-> "int", fallback |-> 0],
       [key |-> K_rsrq, type |-> "int", fallback |-> 0],
       [key |-> K_rssi, type |-> "int", fallback |-> 0],
       [key |-> K_sinr, type |-> "int", fallback |-> 0],
       [key |-> K_rxlev, type |-> "int", fallback |-> 0] >>

Rows == <<RowGSM, RowWCDMA, RowLTE>>
RatNames == << <<"G", "S", "M">>, <<"W", "C", "D", "M", "A">>, <<"L", "T", "E">>,
               <<"N", "R", "5", "G">> >>

\* the generated response holds a report line
HasReport(g) == g # None /\ g.shape \in {"single", "echo", "two"}

\* the generated report line is of a decoded RAT and holds every token of its row
WellFormed(g) ==
    /\ HasReport(g)
    /\ g.rat <= 3
    /\ g.n >= 3 + Len(Rows[g.rat])

\* the pool entry generated at the position of the k-th field of a row: state is
\* token 1, rat token 2, the k-th field token 2 + k
TokenOfField(g, k) == PoolAt(2 + k, g.shift)

\* a quoted sample token without its quotes
Unquoted(text) ==
    IF text = <<"\"", "F", "D", "D", "\"">> THEN <<"F", "D", "D">> ELSE text

\* C6: a mapping returned by query_serving_cell holds state and rat; for a report
\* line whose RAT is none of GSM, WCDMA, LTE the decoder raises nothing and
\* returns exactly those two keys.
C6_StateAndRatAlways ==
    /\ (d_out # None /\ d_out.kind = "info") =>
          /\ {K_state, K_rat} \subseteq DOMAIN d_out.info
          /\ (d_out.info[K_rat].v \notin {RatNames[1], RatNames[2], RatNames[3]}
                => DOMAIN d_out.info = {K_state, K_rat})
    /\ (d_out # None /\ HasReport(d_gen) /\ d_gen.rat = 4 /\ d_gen.n >= 3) =>
          /\ d_out.kind = "info"
          /\ DOMAIN d_out.info = {K_state, K_rat}
          /\ d_out.info[K_rat] = StrVal(RatNames[4])

\* C6 witness: a report line of another RAT, with tokens after the RAT, decoded
\* to the two keys.
C6_Witness ==
    /\ d_out # None
    /\ d_out.kind = "info"
    /\ d_gen.rat = 4
    /\ d_gen.n > 3
    /\ DOMAIN d_out.info = {K_state, K_rat}

\* C7: a well-formed report line of GSM, WCDMA or LTE decodes to exactly the
\* keys of the RAT's table row plus state and rat; state is token 1 and rat
\* token 2 without quotes, and the k-th field of the row holds token 2 + k: the
\* raw token for a string field, the token without quotes for a quoted field,
\* an integer for an integer field (the token's value when it is a literal).
C7_FieldsByPosition ==
    (d_out # None /\ WellFormed(d_gen)) =>
        LET row == Rows[d_gen.rat] IN
        /\ d_out.kind = "info"
        /\ DOMAIN d_out.info = {K_state, K_rat} \cup {row[k].key : k \in 1 .. Len(row)}
        /\ d_out.info[K_state] = StrVal(<<"N", "O", "C", "O", "N", "N">>)
        /\ d_out.info[K_rat] = StrVal(RatNames[d_gen.rat])
        /\ \A k \in 1 .. Len(row) :
              LET got == d_out.info[row[k].key]
                  tok == TokenOfField(d_gen, k)
              IN CASE row[k].type = "str" -> got = StrVal(tok.text)
                   [] row[k].type = "quoted" -> got = StrVal(Unquoted(tok.text))
                   [] row[k].type = "int" ->
                        /\ got.t = "int"
                        /\ tok.isint => got.v = tok.val

\* C7 witness: a well-formed LTE line decoded, its band (the 7th field of the
\* row) holding the integer of its token.
C7_Witness ==
    /\ d_out # None
    /\ WellFormed(d_gen)
    /\ d_gen.rat = 3
    /\ d_out.kind = "info"
    /\ TokenOfField(d_gen, 7).isint
    /\ d_out.info[K_band] = IntVal(TokenOfField(d_gen, 7).val)

\* the fallback the decoder is to pass for an integer field
TableFallback(rat, key) ==
    IF rat = 1 /\ key \in {K_band, K_rxlev, K_gprs, K_rxlevsub, K_rxlevfull,
                           K_rxqualsub, K_rxqualfull} THEN -1
    ELSE IF rat = 2 /\ key \in {K_rac, K_phych, K_slot, K_commod} THEN -1
    ELSE IF rat = 2 /\ key = K_sf THEN 8
    ELSE 0

\* C8: str2int gives the fallback for "-" and for a token that is no integer
\* literal, and the integer for an integer literal, whatever the fallback; and
\* an integer field of a decoded line whose token is no literal holds the
\* fallback of the table: -1 or 8 for the fields listed, 0 by default.
C8_Str2IntFallback ==
    /\ s_out # None =>
          s_out = IntVal(IF s_in.str.text = <<"-">> THEN s_in.nan
                         ELSE IF s_in.str.isint THEN s_in.str.val
                         ELSE s_in.nan)
    /\ (d_out # None /\ WellFormed(d_gen) /\ d_out.kind = "info") =>
          LET row == Rows[d_gen.rat] IN
          \A k \in 1 .. Len(row) :
              (row[k].type = "int" /\ row[k].key \in DOMAIN d_out.info) =>
                  LET tok == TokenOfField(d_gen, k) IN
                  d_out.info[row[k].key] =
                      IntVal(IF tok.isint THEN tok.val
                             ELSE TableFallback(d_gen.rat, row[k].key))

\* C8 witness: str2int of a token that is no literal gave a fallback other
\* than the default.
C8_Witness ==
    /\ s_out # None
    /\ s_in.str.text = <<"a", "b", "c">>
    /\ s_in.nan = 8
    /\ s_out = IntVal(8)

----------------------------------------------------------------------------
(* Failures of the query, checked under SpecMain *)

\* a line of a response is a report line
IsReport(line) == StartsWith(line, PrefixQENG)

\* no line of the response is a report line
NoReport(response) == \A i \in 1 .. Len(response) : ~IsReport(response[i])

\* the first report line of a response that has one
FirstReport(response) ==
    response[CHOOSE i \in 1 .. Len(response) :
                 IsReport(response[i]) /\ \A j \in 1 .. (i - 1) : ~IsReport(response[j])]

\* the number of comma-separated tokens a report line must hold for its RAT:
\* three up to the RAT, then 24 for GSM, 14 for WCDMA, 15 for LTE
TokensConsumed(line) ==
    LET tokens == Split(line, ",") IN
    IF Len(tokens) < 3 THEN 3
    ELSE CASE tokens[3] = RatTokens[1] -> 27
           [] tokens[3] = RatTokens[2] -> 17
           [] tokens[3] = RatTokens[3] -> 18
           [] OTHER -> 3

TooShort(line) == Len(Split(line, ",")) < TokensConsumed(line)

\* the query of main has failed: command() timed out, or it returned lines
\* without a report line, or with a report line too short for its RAT
QueryFailed ==
    \/ pc[MainThread] = "raised"
    \/ /\ pc[MainThread] = "returned"
       /\ \/ NoReport(ret[MainThread].value)
          \/ TooShort(FirstReport(ret[MainThread].value))

\* C11: when the command times out, the +QENG: line is missing or the report
\* line is too short for its RAT, main has no result and never reaches its
\* output steps: nothing is on stdout, in the metadata sink or in the UDP sink,
\* and once main has ended the exit status is not 0.
C11_NoPartialResults ==
    QueryFailed =>
        /\ full_result = None
        /\ result = None
        /\ mpc \notin {"filter", "print", "metadata", "udp"}
        /\ stdout = <<>>
        /\ metadata_sink = <<>>
        /\ udp_sink = <<>>
        /\ mpc = "done" => (exc # "none" /\ ExitStatus # 0)

\* C11 witness: main has ended on a report line cut short, with every output
\* requested and none written.
C11_Witness ==
    /\ mpc = "done"
    /\ pc[MainThread] = "returned"
    /\ ret[MainThread].value = <<ReportShort>>
    /\ opts.json /\ opts.metadata /\ opts.udp_endpoint
    /\ exc = "IndexError"
    /\ stdout = <<>> /\ metadata_sink = <<>> /\ udp_sink = <<>>

\* the one write of main's query
QueryWrite == [caller |-> MainThread, command |-> CmdQENG]

\* C15: no retries. The command text is on the transport exactly once from
\* the moment command() has written it, whether the call is still collecting,
\* has returned (also on ERROR) or has ended in the timeout error, and not
\* at all before; it is written while the caller holds the lock and before any
\* line is popped; and a whole run of main, with its one query_serving_cell,
\* leaves at most that one write.
C15_NoRetries ==
    /\ written = IF pc[MainThread] \in {"pop", "returned", "raised"}
                   THEN <<QueryWrite>> ELSE <<>>
    /\ pc[MainThread] = "write" => (lock = MainThread /\ popped[MainThread] = <<>>)
    /\ popped[MainThread] # <<>> => written = <<QueryWrite>>
    /\ mpc = "done" => Len(written) <= 1

\* C15 witness: main has ended after its command timed out, with the command
\* written once.
C15_Witness ==
    /\ mpc = "done"
    /\ pc[MainThread] = "raised"
    /\ ret[MainThread].kind = "RuntimeError"
    /\ written = <<QueryWrite>>

\* C18: the sinks are served in the order stdout, metadata, UDP, each at most
\* once: the metadata sink has the result only after the JSON was printed (when
\* it is to be printed), the UDP sink only after both. When the metadata sink
\* fails, what was printed stays on stdout, no datagram is sent, main leaves
\* its blocks without reaching the UDP step, and it ends with the exception.
C18_SinksInOrderFailFast ==
    /\ Len(metadata_sink) <= 1
    /\ Len(udp_sink) <= 1
    /\ metadata_sink # <<>> =>
          /\ opts.metadata
          /\ opts.json => (stdout # <<>> /\ stdout[1] = JsonDumps(result))
    /\ udp_sink # <<>> =>
          /\ opts.udp_endpoint
          /\ opts.json => (stdout # <<>> /\ stdout[1] = JsonDumps(result))
          /\ opts.metadata => metadata_sink = <<Tags(result)>>
    /\ exc = "URLError" =>
          /\ opts.metadata
          /\ udp_sink = <<>>
          /\ stdout = IF opts.json THEN <<JsonDumps(result)>> ELSE <<>>
          /\ mpc \in {"exit_reader", "close_port", "exit_serial", "done"}
          /\ mpc = "done" => ExitStatus # 0

\* C18 witness: with every sink requested, the metadata sink failed after the
\* JSON was printed: main has ended with the exception, the JSON on stdout
\* and no datagram sent.
C18_Witness ==
    /\ mpc = "done"
    /\ opts.json /\ opts.metadata /\ opts.udp_endpoint
    /\ exc = "URLError"
    /\ result # None
    /\ stdout = <<JsonDumps(result)>>
    /\ udp_sink = <<>>

----------------------------------------------------------------------------
(* Failures of the decoder, checked under SpecDecode *)

\* C16: query_serving_cell fails with the RuntimeError of lookup_line, and
\* gives no mapping, exactly when no line of the response starts with +QENG:;
\* otherwise its outcome is that of decoding the first such line alone,
\* whatever lines come before or after it, so of two report lines the fields
\* hold the tokens of the first.
C16_FirstReportLineDecoded ==
    d_out # None =>
        /\ d_out.kind = "RuntimeError" <=> NoReport(d_response)
        /\ d_out.kind = "RuntimeError" => DOMAIN d_out = {"kind"}
        /\ ~NoReport(d_response) =>
              d_out = QueryServingCell(<<FirstReport(d_response)>>)
        /\ (WellFormed(d_gen) /\ d_gen.shape = "two") =>
              LET row == Rows[d_gen.rat] IN
              /\ d_out.kind = "info"
              /\ \A k \in 1 .. Len(row) :
                    row[k].type = "str" =>
                        d_out.info[row[k].key] = StrVal(TokenOfField(d_gen, k).text)

\* C16 witness: of two GSM report lines with different mcc tokens, the mcc
\* decoded is the first line's.
C16_Witness ==
    /\ d_out # None
    /\ d_gen.shape = "two"
    /\ d_gen.rat = 1
    /\ WellFormed(d_gen)
    /\ Len(d_response) = 2
    /\ IsReport(d_response[1]) /\ IsReport(d_response[2])
    /\ Split(d_response[1], ",")[4] # Split(d_response[2], ",")[4]
    /\ d_out.kind = "info"
    /\ d_out.info[K_mcc] = StrVal(Split(d_response[1], ",")[4])

\* the keys a mapping of the generated line's RAT holds
KeysOfRat(rat) ==
    {K_state, K_rat} \cup
        (IF rat <= 3 THEN {Rows[rat][k].key : k \in 1 .. Len(Rows[rat])} ELSE {})

\* C17: the token count is not validated. A report line with fewer tokens
\* than its RAT's branch reads (3 for any line, 27 for GSM, 17 for WCDMA, 18
\* for LTE) makes query_serving_cell raise IndexError and give no mapping; a
\* line with at least that many decodes, to the same mapping as the line cut
\* after the last token read; and a mapping, when there is one, holds every
\* key of its RAT, never a part of them.
C17_ShortLineFails ==
    (d_out # None /\ HasReport(d_gen)) =>
        LET line == FirstReport(d_response) IN
        /\ Len(Split(line, ",")) = d_gen.n
        /\ TooShort(line) <=> d_out = [kind |-> "IndexError"]
        /\ ~TooShort(line) =>
              /\ d_out.kind = "info"
              /\ DOMAIN d_out.info = KeysOfRat(d_gen.rat)
              /\ d_out = QueryServingCell(
                             <<GenLine(d_gen.rat, TokensConsumed(line), d_gen.shift)>>)

\* C17 witness: a GSM report line of 26 tokens, one short of the 27 its
\* branch reads, made the decoder raise IndexError.
C17_Witness ==
    /\ d_out # None
    /\ HasReport(d_gen)
    /\ d_gen.rat = 1
    /\ Len(Split(FirstReport(d_response), ",")) = 26
    /\ d_out = [kind |-> "IndexError"]

=============================================================================
